---- MODULE Spec2Model ----
(***************************************************************************)
(* GeneratorHandler of megaorm-cli: the generators directory, the          *)
(* `generators` ledger table of the store, the handler's cached rows and   *)
(* the generate / rollback / reset / add calls, one I/O step at a time     *)
(* (Spec); and one remove call, with its reset, unlink and rename steps,   *)
(* on a directory of generator files and compiler output (RemoveSpec).     *)
(***************************************************************************)
EXTENDS Integers, Sequences, FiniteSets, TLC

VARIABLES dir, tableExists, ledger, rows, pc, call, pre, after, invoked, live,
          usedBatches, noRevert, partialSeen, lastSucc,
          curPlan, quiet, commands

vars == <<dir, tableExists, ledger, rows, pc, call, pre, after, invoked, live,
          usedBatches, noRevert, partialSeen, lastSucc,
          curPlan, quiet, commands>>

\* ------------------------------------------------------------------ bounds
MaxFiles == 3

\* Batch numbers grow without limit over generate / reset cycles on one
\* handler; a plan that would go beyond MaxBatch is not started.
MaxBatch == 3

\* A snake_case table name is the sequence of its words.
Tables == {<<"users">>, <<"posts">>}

TsFlags == {FALSE}

\* ------------------------------------------------------------- sequences
Range(s) == {s[i] : i \in 1..Len(s)}

Reverse(s) == [i \in 1..Len(s) |-> s[Len(s) + 1 - i]]

MapPath(rws) == [i \in 1..Len(rws) |-> rws[i].path]

MapBatch(rws) == [i \in 1..Len(rws) |-> rws[i].batch]

\* ------------------------------------------------------------ file names
\* A directory entry NN_generate_<table>_table.<ext> is the record of its
\* number (the digits as written), table name and extension; its absolute
\* path is the same record. An entry of any other name has the extension
\* "txt".
Exts == {"ts", "js", "js.map", "d.ts", "txt"}

\* parseInt / Number of a string of digits.
RECURSIVE parseInt(_)
parseInt(ds) ==
  IF Len(ds) = 0 THEN 0
  ELSE parseInt(SubSeq(ds, 1, Len(ds) - 1)) * 10 + ds[Len(ds)]

\* Number.prototype.toString of a natural number, as digits.
RECURSIVE toString(_)
toString(n) == IF n < 10 THEN <<n>> ELSE toString(n \div 10) \o <<n % 10>>

\* String.prototype.padStart(width, '0').
RECURSIVE padStart(_, _)
padStart(ds, width) ==
  IF Len(ds) >= width THEN ds ELSE padStart(<<0>> \o ds, width)

isFile(f) == f.ext \in {"ts", "js"}

isTsFile(f) == f.ext = "ts"

isMappedFile(f) == f.ext \in {"js.map", "d.ts"}

toFileName(name, number, ext) ==
  [num |-> padStart(toString(number + 1), 2), table |-> name, ext |-> ext]

\* lastNumber: 0 for an empty directory, -1 when an entry is invalid,
\* otherwise the number of the last source file of the listing.
lastNumber(d) ==
  IF Len(d) = 0 THEN 0
  ELSE LET files == SelectSeq(d, LAMBDA f : ~isMappedFile(f))
       IN  IF \E i \in 1..Len(files) : ~isFile(files[i]) THEN -1
           ELSE parseInt(files[Len(files)].num)

collectPaths_firstOnly(d, map) ==
  IF Len(d) = 0 THEN [ok |-> TRUE, paths |-> <<>>]
  ELSE LET files == IF map THEN d ELSE SelectSeq(d, LAMBDA f : ~isMappedFile(f))
           bad(f) == ~isFile(f) /\ ~(map /\ isMappedFile(f))
       IN  IF Len(files) > 0 /\ bad(files[1])
           THEN [ok |-> FALSE, paths |-> <<>>]
           ELSE [ok |-> TRUE, paths |-> files]

\* collectPaths(path, map): the retained entries in directory order, or a
\* rejection when a retained entry is not a generator file.
collectPaths(d, map) ==
  IF Len(d) = 0 THEN [ok |-> TRUE, paths |-> <<>>]
  ELSE LET files == IF map THEN d ELSE SelectSeq(d, LAMBDA f : ~isMappedFile(f))
           bad(f) == ~isFile(f) /\ ~(map /\ isMappedFile(f))
       IN  IF \E i \in 1..Len(files) : bad(files[i])
           THEN [ok |-> FALSE, paths |-> <<>>]
           ELSE [ok |-> TRUE, paths |-> files]

\* ---------------------------------------------------------------- ledger
RECURSIVE reduceMax(_, _)
reduceMax(batches, acc) ==
  IF Len(batches) = 0 THEN acc
  ELSE reduceMax(Tail(batches), IF Head(batches) > acc THEN Head(batches) ELSE acc)

lastBatch_min(batches) == IF Len(batches) = 0 THEN 0 ELSE 1

lastBatch(batches) == IF Len(batches) = 0 THEN 0 ELSE reduceMax(batches, 0)

add_multiOnly(paths, batch, led) ==
  IF Len(paths) = 1 THEN led
  ELSE led \o [i \in 1..Len(paths) |-> [path |-> paths[i], batch |-> batch]]

\* add(paths, batch, builder): INSERT one row per path.
add(paths, batch, led) ==
  led \o [i \in 1..Len(paths) |-> [path |-> paths[i], batch |-> batch]]

remove_first(paths, led) == SelectSeq(led, LAMBDA r : r.path # paths[1])

\* remove(paths, builder): DELETE ... WHERE path IN (paths).
remove(paths, led) == SelectSeq(led, LAMBDA r : r.path \notin Range(paths))

\* ------------------------------------------------------------ renumbering
\* The keys of group's storage object, in the order of their first use.
RECURSIVE storageKeys(_, _)
storageKeys(paths, keys) ==
  IF Len(paths) = 0 THEN keys
  ELSE storageKeys(Tail(paths),
                   IF \E i \in 1..Len(keys) : keys[i] = Head(paths).num
                   THEN keys ELSE Append(keys, Head(paths).num))

\* Array.prototype.sort((a, b) => parseInt(a) - parseInt(b)): stable.
RECURSIVE sortKeys(_)
sortKeys(keys) ==
  IF Len(keys) = 0 THEN <<>>
  ELSE LET m == CHOOSE i \in 1..Len(keys) :
                  /\ \A j \in 1..Len(keys) : parseInt(keys[i]) <= parseInt(keys[j])
                  /\ \A j \in 1..(i - 1) : parseInt(keys[j]) > parseInt(keys[i])
       IN  <<keys[m]>> \o sortKeys(SubSeq(keys, 1, m - 1) \o SubSeq(keys, m + 1, Len(keys)))

\* group(paths): the paths that share a numeric prefix, by rising number.
group(paths) ==
  LET keys == sortKeys(storageKeys(paths, <<>>))
  IN  [i \in 1..Len(keys) |-> SelectSeq(paths, LAMBDA p : p.num = keys[i])]

newNumber_keep(index, path) == path.num

\* rename: the number that the paths of the group at index (from 0) get.
newNumber(index, path) == padStart(toString(index + 1), 2)

rename_sameStem(groups) ==
  UNION {{[from |-> groups[i][j],
           to |-> [groups[1][1] EXCEPT !.num = newNumber(i - 1, groups[i][j])]] :
            j \in 1..Len(groups[i])} : i \in 1..Len(groups)}

\* rename(groups): one fs.rename(path, newPath) per path of every group.
rename(groups) ==
  UNION {{[from |-> groups[i][j],
           to |-> [groups[i][j] EXCEPT !.num = newNumber(i - 1, groups[i][j])]] :
            j \in 1..Len(groups[i])} : i \in 1..Len(groups)}

\* --------------------------------------------------------------- planner
\* beReadyToGenerate, after load() and collectPaths() have resolved.
planBatch_same(rws) == IF Len(rws) = 0 THEN 1 ELSE lastBatch(MapBatch(rws))

planBatch(rws) == lastBatch(MapBatch(rws)) + 1

planPaths_all(allPaths, rws) == allPaths

planPaths(allPaths, rws) ==
  SelectSeq(allPaths, LAMBDA p : p \notin Range(MapPath(rws)))

rollbackPaths_all(rws) == Reverse(MapPath(rws))

\* beReadyToRollback, after load() has resolved.
rollbackPaths(rws) ==
  LET batch == lastBatch(MapBatch(rws))
  IN  Reverse(MapPath(SelectSeq(rws, LAMBDA g : g.batch = batch)))

\* ------------------------------------------------------------------ calls
\* The fields after outcome belong to collectPaths and remove: the map flag,
\* the table name, the collected listing, the unlink and rename operations
\* still in flight and the number of reset(path) calls made.
NoCall == [op |-> "none", paths |-> <<>>, batch |-> 0, index |-> 0,
           done |-> <<>>, cause |-> "none", outcome |-> "none",
           map |-> FALSE, name |-> "", all |-> <<>>,
           unlinks |-> {}, renames |-> {}, resets |-> 0]

NoPlan == [kind |-> "none", batch |-> 0, paths |-> <<>>]

Outcomes == {"resolve", "reject", "throw", "return"}

\* --------------------------------------------------------- MegaExecutor
\* A value given as a command name: a string and its text, or something else.
str(t) == [isString |-> TRUE, text |-> t]

\* A class given as a command: its name and the class it extends.
class(c, base) == [class |-> c, extends |-> base]

builtIn(name, c) == [name |-> str(name), command |-> class(c, "MegaCommand")]

\* MegaExecutor.commands as the class is loaded.
BuiltIn ==
  <<
     builtIn("add:command", "AddCommandCommand"),
     builtIn("add:cmd", "AddCommandCommand"),
     builtIn("add:model", "AddModelCommand"),
     builtIn("add:seeder", "AddSeederCommand"),
     builtIn("add:generator", "AddGeneratorCommand"),
     builtIn("add:gen", "AddGeneratorCommand"),
     builtIn("add:for", "AddForCommand"),
     builtIn("remove:command", "RemoveCommandCommand"),
     builtIn("remove:cmd", "RemoveCommandCommand"),
     builtIn("remove:model", "RemoveModelCommand"),
     builtIn("remove:seeder", "RemoveSeederCommand"),
     builtIn("remove:generator", "RemoveGeneratorCommand"),
     builtIn("remove:gen", "RemoveGeneratorCommand"),
     builtIn("remove:for", "RemoveForCommand"),
     builtIn("generate", "GenerateCommand"),
     builtIn("gen", "GenerateCommand"),
     builtIn("rollback", "RollbackCommand"),
     builtIn("roll", "RollbackCommand"),
     builtIn("reset", "ResetCommand"),
     builtIn("seed", "SeedCommand"),
     builtIn("clear", "ClearCommand"),
     builtIn("fetch", "FetchCommand"),
     builtIn("version", "VersionCommand"),
     builtIn("v", "VersionCommand")
  >>

Init ==
  /\ dir = <<>>
  /\ tableExists = FALSE
  /\ ledger = <<>>
  /\ rows = <<>>
  /\ pc = "idle"
  /\ call = NoCall
  /\ pre = <<>>
  /\ after = <<>>
  /\ invoked = <<>>
  /\ live = {}
  /\ usedBatches = {}
  /\ noRevert = TRUE
  /\ partialSeen = FALSE
  /\ lastSucc = 0
  /\ curPlan = NoPlan
  /\ quiet = FALSE
  /\ commands = BuiltIn

ghostApply == <<usedBatches, noRevert, partialSeen, lastSucc>>
ghostCall == <<pre, after, invoked>>
ghostPlan == <<curPlan, quiet>>
store == <<tableExists, ledger>>

\* History kept for the properties: the ledger before the running generate
\* (pre), the paths of a generate that the running rollback directly follows
\* (after), the last plan while nothing has changed since (curPlan, quiet),
\* the batches recorded while nothing has been reverted, and the paths whose
\* create() has resolved and whose drop() has not, since the last reset (live).
ForgetCall == pre' = <<>> /\ after' = <<>> /\ invoked' = <<>>

Disturb == quiet' = FALSE /\ curPlan' = NoPlan

Revert ==
  /\ noRevert' = FALSE
  /\ partialSeen' = FALSE
  /\ lastSucc' = 0
  /\ UNCHANGED usedBatches

\* GeneratorHandler.add(name, path, ts): writes the next numbered file.
Add(name, ts) ==
  /\ pc = "idle"
  /\ Len(dir) < MaxFiles
  /\ lastNumber(dir) >= 0
  /\ dir' = Append(dir, toFileName(name, lastNumber(dir), IF ts THEN "ts" ELSE "js"))
  /\ call' = [NoCall EXCEPT !.op = "add", !.outcome = "ok"]
  /\ Disturb
  /\ ForgetCall
  /\ UNCHANGED <<store, rows, pc, live, ghostApply>>
  /\ UNCHANGED commands

\* new GeneratorHandler(builder): every command builds its own handler.
NewHandler ==
  /\ pc = "idle"
  /\ rows # <<>>
  /\ rows' = <<>>
  /\ UNCHANGED <<dir, store, pc, call, ghostCall, live, ghostApply, ghostPlan>>
  /\ UNCHANGED commands

\* load(): SELECT * FROM generators; a QueryError provisions the table.
\* sel is the store's answer to the SELECT, crt whether CREATE TABLE works.
Selects == {"rows", "QueryError", "Error"}

\* err names the rejection: the SELECT's own error, or the error of the
\* CREATE TABLE that the catch branch has issued.
load(sel, crt) ==
  IF sel = "rows"
  THEN [ok |-> TRUE, rows |-> ledger, exists |-> tableExists, err |-> "none"]
  ELSE IF sel = "QueryError" /\ crt
       THEN [ok |-> TRUE, rows |-> rows, exists |-> TRUE, err |-> "none"]
       ELSE [ok |-> FALSE, rows |-> rows, exists |-> tableExists,
             err |-> IF sel = "QueryError" THEN "createError" ELSE "loadError"]

\* What the store can answer: rows only from an existing table, and a
\* CREATE TABLE succeeds only when the table is missing.
StoreAnswers(sel, crt) ==
  /\ sel = "rows" => tableExists
  /\ crt => (sel = "QueryError" /\ ~tableExists)

Finish(c, outcome) == [c EXCEPT !.outcome = outcome]

NotePlan(p) ==
  /\ curPlan' = p
  /\ quiet' = TRUE

\* generate(path) up to the call of createTables: beReadyToGenerate.
beReadyToGenerate(sel, crt) ==
  /\ pc = "idle"
  /\ StoreAnswers(sel, crt)
  /\ LET l == load(sel, crt)
         all == collectPaths(dir, FALSE)
         batch == planBatch(l.rows)
         paths == planPaths(all.paths, l.rows)
         c == [NoCall EXCEPT !.op = "generate"]
     IN  /\ batch <= MaxBatch
         /\ rows' = l.rows
         /\ tableExists' = l.exists
         /\ IF ~l.ok
            THEN /\ call' = Finish(c, l.err)
                 /\ pc' = "idle"
                 /\ UNCHANGED ghostPlan
            ELSE IF ~all.ok
            THEN /\ call' = Finish(c, "pathError")
                 /\ pc' = "idle"
                 /\ UNCHANGED ghostPlan
            ELSE IF Len(paths) = 0
            THEN /\ call' = Finish(c, "Nothing to generate")
                 /\ pc' = "idle"
                 /\ NotePlan([kind |-> "nothing", batch |-> 0, paths |-> <<>>])
            ELSE /\ call' = [c EXCEPT !.paths = paths, !.batch = batch]
                 /\ pc' = "collect"
                 /\ NotePlan([kind |-> "plan", batch |-> batch, paths |-> paths])
  /\ ForgetCall
  /\ UNCHANGED <<dir, ledger, live, ghostApply>>
  /\ UNCHANGED commands

collectGenerators_lenient(loadable) ==
  /\ pc = "collect"
  /\ pc' = IF call.op = "generate" THEN "creating" ELSE "dropping"
  /\ call' = [call EXCEPT !.index = 0, !.done = <<>>]
  /\ pre' = IF call.op = "generate" THEN ledger ELSE pre
  /\ UNCHANGED <<dir, store, rows, after, invoked, live, ghostApply, ghostPlan>>
  /\ UNCHANGED commands

\* collectGenerators(paths) at the head of createTables / dropTables:
\* require() of a path may throw or yield something that is no generator.
collectGenerators(loadable) ==
  /\ pc = "collect"
  /\ IF loadable
     THEN /\ pc' = IF call.op = "generate" THEN "creating" ELSE "dropping"
          /\ call' = [call EXCEPT !.index = 0, !.done = <<>>]
          /\ pre' = IF call.op = "generate" THEN ledger ELSE pre
     ELSE /\ pc' = "idle"
          /\ call' = Finish(call, "resolveError")
          /\ UNCHANGED pre
  /\ UNCHANGED <<dir, store, rows, after, invoked, live, ghostApply, ghostPlan>>
  /\ UNCHANGED commands

\* The error of a step: a rejection and a throw carry the generator's own
\* message, a non-promise return value is reported as an invalid method.
message(o) == IF o = "return" THEN "Invalid method" ELSE "Ops"

\* The loop body after generators[index].create() / drop() has answered.
afterStep_noStop(c, o) ==
  IF o = "resolve"
  THEN [c EXCEPT !.done = Append(c.done, c.paths[c.index + 1]), !.index = c.index + 1]
  ELSE [c EXCEPT !.index = c.index + 1]

afterStep(c, o) ==
  IF o = "resolve"
  THEN [c EXCEPT !.done = Append(c.done, c.paths[c.index + 1]), !.index = c.index + 1]
  ELSE [c EXCEPT !.cause = message(o)]

\* catch branch: commit the partial progress when there is some.
mustCommit_never(done) == FALSE

mustCommit(done) == Len(done) > 0

\* Where the call goes once a step has answered.
nextPc(c, loop, commit) ==
  IF c.cause = "none"
  THEN IF c.index >= Len(c.paths) THEN commit ELSE loop
  ELSE IF mustCommit(c.done) THEN commit ELSE "idle"

settle_silent(c, loop, commit) == c

settle(c, loop, commit) ==
  IF nextPc(c, loop, commit) = "idle" THEN Finish(c, "summaryError") ELSE c

\* create(index): generators[index].set.builder(...).create() is called.
InvokeCreate ==
  /\ pc = "creating"
  /\ call.index < Len(call.paths)
  /\ pc' = "awaitCreate"
  /\ invoked' = Append(invoked, call.paths[call.index + 1])
  /\ Disturb
  /\ UNCHANGED <<dir, store, rows, call, pre, after, live, ghostApply>>
  /\ UNCHANGED commands

\* ... and answers: resolves, rejects, throws, or returns a non-promise.
ResolveCreate(o) ==
  /\ pc = "awaitCreate"
  /\ LET c == afterStep(call, o)
     IN  /\ call' = settle(c, "creating", "recording")
         /\ pc' = nextPc(c, "creating", "recording")
  /\ live' = IF o = "resolve" THEN live \cup {call.paths[call.index + 1]} ELSE live
  /\ UNCHANGED <<dir, store, rows, ghostCall, ghostApply, ghostPlan>>
  /\ UNCHANGED commands

\* add(created, batch, builder) and the resolve / reject that follows it.
Record(ok) ==
  /\ pc = "recording"
  /\ ok => tableExists
  /\ pc' = "idle"
  /\ IF ok
     THEN /\ ledger' = add(call.done, call.batch, ledger)
          /\ call' = Finish(call, IF call.cause = "none" THEN "ok" ELSE "summaryError")
          /\ usedBatches' = usedBatches \cup {call.batch}
          /\ partialSeen' = (partialSeen \/ (noRevert /\ call.cause # "none"))
          /\ lastSucc' = IF noRevert /\ call.cause = "none" THEN call.batch ELSE lastSucc
     ELSE /\ call' = Finish(call, "storeError")
          /\ UNCHANGED <<ledger, usedBatches, partialSeen, lastSucc>>
  /\ UNCHANGED <<dir, tableExists, rows, ghostCall, live, noRevert, ghostPlan>>
  /\ UNCHANGED commands

\* rollback() up to the call of dropTables: beReadyToRollback.
beReadyToRollback(sel, crt) ==
  /\ pc = "idle"
  /\ StoreAnswers(sel, crt)
  /\ LET l == load(sel, crt)
         paths == rollbackPaths(l.rows)
         c == [NoCall EXCEPT !.op = "rollback"]
     IN  /\ rows' = l.rows
         /\ tableExists' = l.exists
         /\ IF ~l.ok
            THEN /\ call' = Finish(c, l.err)
                 /\ pc' = "idle"
            ELSE IF Len(paths) = 0
            THEN /\ call' = Finish(c, "Nothing to rollback")
                 /\ pc' = "idle"
            ELSE /\ call' = [c EXCEPT !.paths = paths,
                                      !.batch = lastBatch(MapBatch(l.rows))]
                 /\ pc' = "collect"
  /\ IF call.op = "generate" /\ call.outcome = "ok"
     THEN after' = call.done /\ UNCHANGED pre
     ELSE after' = <<>> /\ pre' = <<>>
  /\ invoked' = <<>>
  /\ UNCHANGED <<dir, ledger, live, ghostApply, ghostPlan>>
  /\ UNCHANGED commands

\* drop(index): generators[index].set.builder(...).drop() is called.
InvokeDrop ==
  /\ pc = "dropping"
  /\ call.index < Len(call.paths)
  /\ pc' = "awaitDrop"
  /\ invoked' = Append(invoked, call.paths[call.index + 1])
  /\ Disturb
  /\ Revert
  /\ UNCHANGED <<dir, store, rows, call, pre, after, live>>
  /\ UNCHANGED commands

ResolveDrop(o) ==
  /\ pc = "awaitDrop"
  /\ LET c == afterStep(call, o)
     IN  /\ call' = settle(c, "dropping", "forgetting")
         /\ pc' = nextPc(c, "dropping", "forgetting")
  /\ live' = IF o = "resolve" THEN live \ {call.paths[call.index + 1]} ELSE live
  /\ UNCHANGED <<dir, store, rows, ghostCall, ghostApply, ghostPlan>>
  /\ UNCHANGED commands

\* remove(dropped, builder) and the resolve / reject that follows it.
Forget(ok) ==
  /\ pc = "forgetting"
  /\ ok => tableExists
  /\ pc' = "idle"
  /\ IF ok
     THEN /\ ledger' = remove(call.done, ledger)
          /\ call' = Finish(call, IF call.cause = "none" THEN "ok" ELSE "summaryError")
     ELSE /\ call' = Finish(call, "storeError")
          /\ UNCHANGED ledger
  /\ UNCHANGED <<dir, tableExists, rows, ghostCall, live, ghostApply, ghostPlan>>
  /\ UNCHANGED commands

\* reset(path) up to the first DROP TABLE: collectPaths, reverse,
\* collectGenerators; c is the call that reset(path) belongs to.
resetCall(c, loadable) ==
  LET all == collectPaths(dir, FALSE)
  IN  IF ~all.ok THEN Finish(c, "pathError")
      ELSE IF Len(all.paths) = 0 THEN Finish(c, "Nothing to reset")
      ELSE IF ~loadable THEN Finish(c, "resolveError")
      ELSE [c EXCEPT !.paths = Reverse(all.paths), !.index = 0, !.done = <<>>]

\* The reset command.
Reset(loadable) ==
  /\ pc = "idle"
  /\ call' = resetCall([NoCall EXCEPT !.op = "reset"], loadable)
  /\ pc' = IF call'.outcome = "none" THEN "resetting" ELSE "idle"
  /\ live' = IF pc' = "resetting" THEN {} ELSE live
  /\ ForgetCall
  /\ UNCHANGED <<dir, store, rows, ghostApply, ghostPlan>>
  /\ UNCHANGED commands

ResetDrop_stop(ok) ==
  /\ pc = "resetting"
  /\ call.index < Len(call.paths)
  /\ call' = IF ok
             THEN [call EXCEPT !.done = Append(call.done, call.paths[call.index + 1]),
                               !.index = call.index + 1]
             ELSE Finish(call, "dropError")
  /\ pc' = IF ok THEN pc ELSE "idle"
  /\ Disturb
  /\ Revert
  /\ UNCHANGED <<dir, store, rows, ghostCall, live>>
  /\ UNCHANGED commands

\* exec(index): DROP TABLE <name>; a failure is swallowed.
ResetDrop(ok) ==
  /\ pc = "resetting"
  /\ call.index < Len(call.paths)
  /\ LET p == call.paths[call.index + 1]
     IN  call' = IF ok
                 THEN [call EXCEPT !.done = Append(call.done, p),
                                   !.index = call.index + 1]
                 ELSE [call EXCEPT !.index = call.index + 1]
  /\ Disturb
  /\ Revert
  /\ UNCHANGED <<dir, store, rows, pc, ghostCall, live>>
  /\ UNCHANGED commands

\* exec(generators.length): DROP TABLE generators; a failure is swallowed.
ResetLedger(ok) ==
  /\ pc = "resetting"
  /\ call.index >= Len(call.paths)
  /\ ok => tableExists
  /\ tableExists' = IF ok THEN FALSE ELSE tableExists
  /\ ledger' = IF ok THEN <<>> ELSE ledger
  /\ call' = IF call.op = "remove"
              THEN [call EXCEPT !.paths = <<>>, !.index = 0, !.done = <<>>]
              ELSE Finish(call, "ok")
  /\ pc' = IF call.op = "remove" THEN "unlinking" ELSE "idle"
  /\ Disturb
  /\ Revert
  /\ UNCHANGED <<dir, rows, ghostCall, live>>
  /\ UNCHANGED commands

\* ---------------------------------------------------------------- remove
\* The words of the vocabulary that end with a digit.
DigitWords == {"x1"}

\* The file name split at its underscores, up to the word `table`: the
\* number, `generate`, the words of the table name.
tokens(f) == <<"#", "generate">> \o f.table

\* [0-9]+ can end the token: the number, or a word ending with a digit.
endsWithDigit(tok, s) == s = 1 \/ tok[s] \in DigitWords

\* remove's regular expression [0-9]+_generate_<name>_table.(ts|js|js.map|d.ts)$
\* searched in a collected path: it is not anchored on the left, so it
\* matches when the path ends with digits, _generate_, the name, _table
\* and one of the extensions.
matches(name, f) ==
  /\ f.ext \in {"ts", "js", "js.map", "d.ts"}
  /\ \E s \in 1..Len(tokens(f)) :
       /\ endsWithDigit(tokens(f), s)
       /\ s + 1 <= Len(tokens(f))
       /\ tokens(f)[s + 1] = "generate"
       /\ SubSeq(tokens(f), s + 2, Len(tokens(f))) = name

needsReset_anySource(paths) == \E i \in 1..Len(paths) : isFile(paths[i])

\* reset(): skipped when the first collected file is a TypeScript generator.
needsReset(paths) == ~isTsFile(paths[1])

\* collectPaths(path, map) called on its own.
CollectPaths(map) ==
  /\ pc = "idle"
  /\ call.op # "remove"
  /\ LET all == collectPaths(dir, map)
     IN  call' = [NoCall EXCEPT !.op = "collectPaths", !.map = map,
                                !.paths = all.paths,
                                !.outcome = IF all.ok THEN "ok" ELSE "pathError"]
  /\ Disturb
  /\ ForgetCall
  /\ UNCHANGED <<dir, store, rows, pc, live, ghostApply>>
  /\ UNCHANGED commands

noneFound_always(unlinkPaths) == TRUE

\* unlinkPaths.length === 0: no collected path matched the table.
noneFound(unlinkPaths) == Len(unlinkPaths) = 0

\* remove(name, path) up to its reset step: collectPaths(path, true), the
\* files to unlink, the groups to rename. The remove command makes one call.
Remove(name) ==
  /\ pc = "idle"
  /\ call.op # "remove"
  /\ LET all == collectPaths(dir, TRUE)
         unlinkPaths == SelectSeq(all.paths, LAMBDA f : matches(name, f))
         renamePaths == group(SelectSeq(all.paths, LAMBDA f : ~matches(name, f)))
         c == [NoCall EXCEPT !.op = "remove", !.name = name, !.map = TRUE]
     IN  IF ~all.ok
         THEN /\ call' = Finish(c, "pathError")
              /\ pc' = "idle"
         ELSE IF noneFound(unlinkPaths)
         THEN /\ call' = Finish([c EXCEPT !.all = all.paths], "No generator found")
              /\ pc' = "idle"
         ELSE /\ call' = [c EXCEPT !.all = all.paths,
                                   !.unlinks = Range(unlinkPaths),
                                   !.renames = rename(renamePaths)]
              /\ pc' = IF needsReset(all.paths) THEN "removeReset" ELSE "unlinking"
  /\ Disturb
  /\ ForgetCall
  /\ UNCHANGED <<dir, store, rows, live, ghostApply>>
  /\ UNCHANGED commands

\* this.reset(path) called by remove.
RemoveReset(loadable) ==
  /\ pc = "removeReset"
  /\ call' = resetCall([call EXCEPT !.resets = @ + 1], loadable)
  /\ pc' = IF call'.outcome = "none" THEN "resetting" ELSE "idle"
  /\ live' = IF pc' = "resetting" THEN {} ELSE live
  /\ UNCHANGED <<dir, store, rows, ghostCall, ghostApply, ghostPlan>>
  /\ UNCHANGED commands

unlinkFailed_never(c) == FALSE

\* Promise.all(paths.map(fs.unlink)) rejects: some fs.unlink has failed.
unlinkFailed(c) == c.cause # "none"

\* unlink(unlinkPaths): the fs.unlink calls run together and settle in any
\* order; when all have settled the renames start, or remove rejects.
Unlink(p, ok) ==
  /\ pc = "unlinking"
  /\ p \in call.unlinks
  /\ dir' = IF ok THEN SelectSeq(dir, LAMBDA f : f # p) ELSE dir
  /\ LET c == [call EXCEPT !.unlinks = @ \ {p},
                           !.cause = IF ok THEN @ ELSE "unlink"]
     IN  IF c.unlinks # {}
         THEN call' = c /\ pc' = "unlinking"
         ELSE IF unlinkFailed(c)
         THEN call' = Finish(c, "unlinkError") /\ pc' = "idle"
         ELSE IF c.renames = {}
         THEN call' = Finish(c, "ok") /\ pc' = "idle"
         ELSE call' = c /\ pc' = "renaming"
  /\ UNCHANGED <<store, rows, ghostCall, live, ghostApply, ghostPlan>>
  /\ UNCHANGED commands

\* fs.rename(from, to) on the directory: an entry named `to` is replaced.
moved(d, from, to) ==
  IF from = to THEN d
  ELSE LET kept == SelectSeq(d, LAMBDA f : f # to)
       IN  [i \in 1..Len(kept) |-> IF kept[i] = from THEN to ELSE kept[i]]

\* rename(renamePaths): the fs.rename calls run together (Promise.all) and
\* settle in any order; when all have settled remove resolves or rejects.
Rename(r, ok) ==
  /\ pc = "renaming"
  /\ r \in call.renames
  /\ dir' = IF ok THEN moved(dir, r.from, r.to) ELSE dir
  /\ LET c == [call EXCEPT !.renames = @ \ {r},
                           !.cause = IF ok THEN @ ELSE "rename"]
     IN  IF c.renames # {}
         THEN call' = c /\ pc' = "renaming"
         ELSE /\ call' = Finish(c, IF c.cause = "none" THEN "ok" ELSE "renameError")
              /\ pc' = "idle"
  /\ UNCHANGED <<store, rows, ghostCall, live, ghostApply, ghostPlan>>
  /\ UNCHANGED commands

\* The directories that remove is run on: MaxGroups numbered groups at most,
\* the listing in name order. A source directory holds one generator per
\* group, a .js or a .ts file; an output directory of the compiler holds a
\* .d.ts, a .js and a .js.map file per group. And the same directories with
\* one entry of another name anywhere in the listing.
MaxGroups == 3

SourceKinds == {"js", "ts"}

siblings(kind) ==
  IF kind = "dist" THEN <<"d.ts", "js", "js.map">> ELSE <<kind>>

RECURSIVE listing(_, _)
listing(g, i) ==
  IF i > Len(g) THEN <<>>
  ELSE [k \in 1..Len(siblings(g[i][2])) |->
          [num |-> padStart(toString(i), 2), table |-> g[i][1],
           ext |-> siblings(g[i][2])[k]]] \o listing(g, i + 1)

Stray == [num |-> <<>>, table |-> <<"readme">>, ext |-> "txt"]

Listings ==
  {listing(g, 1) :
     g \in UNION {[1..n -> Tables \X SourceKinds] \cup [1..n -> Tables \X {"dist"}] :
                    n \in 0..MaxGroups}}

Directories ==
  Listings \cup
  UNION {{SubSeq(d, 1, k) \o <<Stray>> \o SubSeq(d, k + 1, Len(d)) :
            k \in 0..Len(d)} : d \in Listings}

\* The files of the directory that generate has applied, under batch 1.
appliedRows(d) ==
  [i \in 1..Len(SelectSeq(d, isFile)) |->
     [path |-> SelectSeq(d, isFile)[i], batch |-> 1]]

RemoveInit ==
  /\ dir \in Directories
  /\ tableExists \in BOOLEAN
  /\ ledger = IF tableExists THEN appliedRows(dir) ELSE <<>>
  /\ rows = <<>>
  /\ pc = "idle"
  /\ call = NoCall
  /\ pre = <<>>
  /\ after = <<>>
  /\ invoked = <<>>
  /\ live = {}
  /\ usedBatches = {}
  /\ noRevert = TRUE
  /\ partialSeen = FALSE
  /\ lastSucc = 0
  /\ curPlan = NoPlan
  /\ quiet = FALSE
  /\ commands = BuiltIn

\* The table names that remove is called with.
RemoveNames == Tables \cup {<<"x1", "generate", "users">>}

RemoveNext ==
  \/ \E map \in BOOLEAN : CollectPaths(map)
  \/ \E name \in RemoveNames : Remove(name)
  \/ \E loadable \in BOOLEAN : RemoveReset(loadable)
  \/ \E ok \in BOOLEAN : ResetDrop(ok)
  \/ \E ok \in BOOLEAN : ResetLedger(ok)
  \/ \E p \in call.unlinks, ok \in BOOLEAN : Unlink(p, ok)
  \/ \E r \in call.renames, ok \in BOOLEAN : Rename(r, ok)

RemoveSpec == RemoveInit /\ [][RemoveNext]_vars

\* Directories whose table names embed another table's file-name stem.
MaxNamed == 2

NamedListings ==
  {listing(g, 1) :
     g \in UNION {[1..n -> RemoveNames \X SourceKinds] \cup [1..n -> RemoveNames \X {"dist"}] :
                    n \in 0..MaxNamed}}

NamesInit ==
  /\ dir \in NamedListings
  /\ tableExists \in BOOLEAN
  /\ ledger = IF tableExists THEN appliedRows(dir) ELSE <<>>
  /\ rows = <<>>
  /\ pc = "idle"
  /\ call = NoCall
  /\ pre = <<>>
  /\ after = <<>>
  /\ invoked = <<>>
  /\ live = {}
  /\ usedBatches = {}
  /\ noRevert = TRUE
  /\ partialSeen = FALSE
  /\ lastSucc = 0
  /\ curPlan = NoPlan
  /\ quiet = FALSE
  /\ commands = BuiltIn

NamesSpec == NamesInit /\ [][RemoveNext]_vars

\* ---------------------------------------------------------------- register
isFullStr(name) == name.isString /\ name.text # ""

isSubclass(command, base) == command.extends = base

registered_never(cmds, name) == FALSE

\* this.commands.find((command) => command.name === name) is defined.
registered(cmds, name) == \E i \in 1..Len(cmds) : cmds[i].name = name

\* MegaExecutor.register(name, command): the thrown MegaExecutorError, or the
\* new entry pushed.
Register(name, command) ==
  /\ pc = "idle"
  /\ LET c == [NoCall EXCEPT !.op = "register"]
     IN  IF ~isSubclass(command, "MegaCommand")
         THEN call' = Finish(c, "Invalid command") /\ commands' = commands
         ELSE IF ~isFullStr(name)
         THEN call' = Finish(c, "Invalid command name") /\ commands' = commands
         ELSE IF registered(commands, name)
         THEN call' = Finish(c, "Deplicated command names") /\ commands' = commands
         ELSE call' = Finish(c, "ok") /\ commands' = Append(commands, [name |-> name, command |-> command])
  /\ UNCHANGED <<dir, store, rows, pc, live, ghostCall, ghostApply, ghostPlan>>

\* The names and the classes that register is called with.
NameInputs ==
  {str("generate"), str("v"), str("serve"), str("watch"), str("deploy"), str(""),
   [isString |-> FALSE, text |-> "undefined"]}

CommandInputs ==
  {class("MockCommand", "MegaCommand"), class("GenerateCommand", "MegaCommand"),
   class("InvalidCommand", "Object")}

RegisterNext == \E name \in NameInputs, command \in CommandInputs : Register(name, command)

RegisterSpec == Init /\ [][RegisterNext]_vars

Next ==
  \/ \E name \in Tables, ts \in TsFlags : Add(name, ts)
  \/ NewHandler
  \/ \E sel \in Selects, crt \in BOOLEAN : beReadyToGenerate(sel, crt)
  \/ \E loadable \in BOOLEAN : collectGenerators(loadable)
  \/ InvokeCreate
  \/ \E o \in Outcomes : ResolveCreate(o)
  \/ \E ok \in BOOLEAN : Record(ok)
  \/ \E sel \in Selects, crt \in BOOLEAN : beReadyToRollback(sel, crt)
  \/ InvokeDrop
  \/ \E o \in Outcomes : ResolveDrop(o)
  \/ \E ok \in BOOLEAN : Forget(ok)
  \/ \E loadable \in BOOLEAN : Reset(loadable)
  \/ \E ok \in BOOLEAN : ResetDrop(ok)
  \/ \E ok \in BOOLEAN : ResetLedger(ok)

Spec == Init /\ [][Next]_vars

\* ------------------------------------------------------------ properties
RowsFor(paths, batch) == [i \in 1..Len(paths) |-> [path |-> paths[i], batch |-> batch]]

HasRow(led, p) == \E i \in 1..Len(led) : led[i].path = p

BatchesOf(led) == {led[i].batch : i \in 1..Len(led)}

MaxOf(S) == IF S = {} THEN 0 ELSE CHOOSE m \in S : \A n \in S : n <= m

\* createTables has returned after create() failed at index call.index.
ApplyFailed == pc = "idle" /\ call.op = "generate" /\ call.cause # "none"

GainedExactly(k) ==
  ledger = pre \o RowsFor(SubSeq(call.paths, 1, k), call.batch)

\* C1 as stated: whenever create() first fails at index k, the ledger has
\* afterwards gained a row with the call's batch for exactly the paths 0..k-1.
C1_Original == ApplyFailed => GainedExactly(call.index)

\* C1 amended: when create() first fails at index k and the call rejects with
\* the 'k/total created' summary (the ledger insert itself did not fail), the
\* ledger has gained a row with the call's batch for exactly the paths 0..k-1
\* and none for the path at k or a later one.
C1_PartialFailure ==
  (ApplyFailed /\ call.outcome = "summaryError") => GainedExactly(call.index)

C1_Witness ==
  /\ ApplyFailed
  /\ call.outcome = "summaryError"
  /\ Len(call.paths) = 3
  /\ call.index = 1
  /\ Len(ledger) = Len(pre) + 1

\* C2: an apply that stopped on a failure with some path applied has issued
\* the ledger insert before it rejects, and the 'k/total created' rejection is
\* only ever observed with every applied path recorded under the call's batch.
C2_CommitBeforeError ==
  /\ (ApplyFailed /\ Len(call.done) > 0) => call.outcome \in {"summaryError", "storeError"}
  /\ (call.op = "generate" /\ call.outcome = "summaryError") =>
       \A i \in 1..Len(call.done) :
         \E j \in 1..Len(ledger) :
           ledger[j] = [path |-> call.done[i], batch |-> call.batch]

C2_Witness ==
  /\ ApplyFailed
  /\ call.outcome = "summaryError"
  /\ Len(call.done) = 2

\* C3: create() is invoked in the order of the path list, one at a time (the
\* create() of index i+1 only once all earlier ones have resolved), and never
\* for a later path after the first failure.
C3_Sequential ==
  call.op = "generate" =>
    /\ Len(invoked) <= Len(call.paths)
    /\ invoked = SubSeq(call.paths, 1, Len(invoked))
    /\ call.done = SubSeq(call.paths, 1, Len(call.done))
    /\ pc = "awaitCreate" => (call.cause = "none" /\ Len(invoked) = Len(call.done) + 1)
    /\ pc # "awaitCreate" =>
         Len(invoked) = Len(call.done) + (IF call.cause = "none" THEN 0 ELSE 1)

C3_Witness ==
  /\ ApplyFailed
  /\ Len(call.paths) = 3
  /\ Len(invoked) = 2
  /\ Len(call.done) = 1

\* The path whose create() is in flight.
Creating == call.paths[call.index + 1]

LedgerPending == SelectSeq(dir, LAMBDA p : isFile(p) /\ ~HasRow(ledger, p))

\* C5: beReadyToGenerate returns batch = largest batch of the ledger rows + 1
\* (1 when there are none) and the directory's paths without a ledger row, in
\* directory order, and fails with 'Nothing to generate' exactly when there
\* is no such path.
C5_PlanApply ==
  /\ (call.op = "generate" /\ pc = "collect") =>
       /\ call.batch = MaxOf(BatchesOf(ledger)) + 1
       /\ call.paths = LedgerPending
       /\ LedgerPending # <<>>
  /\ (call.op = "generate" /\ call.outcome = "Nothing to generate") =>
       LedgerPending = <<>>

\* C6: two consecutive plans with no apply, undo, reset, remove or directory
\* change between them return the same paths and the same batch number.
C6_PlanIdempotent == [][(quiet /\ quiet') => curPlan' = curPlan]_vars

\* The undo paths as the ledger defines them.
LedgerLastBatch ==
  LET m == MaxOf(BatchesOf(ledger))
  IN  Reverse(MapPath(SelectSeq(ledger, LAMBDA r : r.batch = m)))

\* C7: beReadyToRollback returns the paths of the ledger rows of the largest
\* batch, in reverse order, and fails with 'Nothing to rollback' exactly when
\* the ledger has no rows.
C7_PlanUndo ==
  /\ (call.op = "rollback" /\ pc = "collect") =>
       /\ call.paths = LedgerLastBatch
       /\ ledger # <<>>
  /\ (call.op = "rollback" /\ call.outcome = "Nothing to rollback") =>
       ledger = <<>>

\* A rollback that directly followed a successful generate has resolved.
RoundTrip ==
  /\ pc = "idle"
  /\ call.op = "rollback"
  /\ call.outcome = "ok"
  /\ after # <<>>

Applied ==
  /\ pc = "recording"
  /\ call.op = "generate"
  /\ call'.outcome = "ok"

\* C9: over generate calls with no rollback or reset among them, each
\* successful call records a larger batch number than the successful call
\* before it, and the first records 1 when no failed call has recorded before.
C9_BatchMonotonic ==
  [][(Applied /\ noRevert) =>
       /\ call.batch > lastSucc
       /\ (lastSucc = 0 /\ ~partialSeen) => call.batch = 1]_vars

C9_Witness ==
  /\ noRevert
  /\ ~partialSeen
  /\ lastSucc = 3
  /\ Len(ledger) = 3

\* The step in which an apply call inserts its rows.
Inserts == pc = "recording" /\ ledger' # ledger

\* C10 as stated: an apply call never records a batch number that an earlier
\* apply call has recorded, nor one that has rows in the ledger.
C10_Original ==
  [][Inserts => (call.batch \notin usedBatches /\ call.batch \notin BatchesOf(ledger))]_vars

\* C10 amended: an apply call never adds rows to a batch number that has rows
\* in the ledger: its batch number is larger than every batch number there
\* (a number whose rows a rollback or reset has removed is recorded again).
C10_NoMerge ==
  [][Inserts => \A b \in BatchesOf(ledger) : b < call.batch]_vars

C10_Witness ==
  /\ pc = "idle"
  /\ call.op = "generate"
  /\ call.outcome = "ok"
  /\ call.batch = 2
  /\ BatchesOf(ledger) = {1, 2}
  /\ ~noRevert

\* C11: after any sequence of generate and rollback calls, successful, failed
\* or failed part-way, the ledger holds at most one row per migration path.
C11_OneRowPerPath ==
  \A i, j \in 1..Len(ledger) : ledger[i].path = ledger[j].path => i = j

C11_Witness ==
  /\ pc = "idle"
  /\ call.op = "generate"
  /\ call.outcome = "summaryError"
  /\ ~noRevert
  /\ Len(ledger) = 2
  /\ BatchesOf(ledger) = {1, 2}

\* The step in which load() takes the provisioning branch: the SELECT has
\* failed and CREATE TABLE generators has succeeded.
Provisions == ~tableExists /\ tableExists'

\* C12: after load() has provisioned the ledger table the handler's cached
\* rows are empty and the plan that follows treats no path as applied, also
\* on a handler that had loaded rows in an earlier call.
C12_ProvisionEmptiesCache ==
  [][Provisions =>
       /\ rows' = <<>>
       /\ (call'.op = "generate" /\ pc' = "collect") =>
            call'.paths = collectPaths(dir, FALSE).paths]_vars

\* The step in which a call rejects because its load() has rejected, with
\* the SELECT's own error or with the error of the CREATE TABLE it issued.
LoadFails ==
  /\ pc = "idle"
  /\ call'.outcome \in {"loadError", "createError"}
  /\ ~NewHandler

\* C13: load() issues CREATE TABLE only when the SELECT failed because the
\* generators table does not exist; every other failure of the SELECT is
\* handed to the caller as it is, with no CREATE TABLE issued and the cached
\* rows unchanged.
C13_ProvisionOnlyWhenMissing ==
  [][LoadFails =>
       /\ rows' = rows
       /\ call'.outcome = "createError" => ~tableExists]_vars

\* The step in which create() or drop() returns a value that is no promise.
Aborted == call.cause = "none" /\ call'.cause = "Invalid method"

\* The store statement that commits the completed paths of an aborted call.
CommitPc == IF call.op = "generate" THEN "recording" ELSE "forgetting"

\* The ledger once the completed paths of call c are committed to led.
Committed(led, c) ==
  IF c.op = "generate"
  THEN led \o RowsFor(c.done, c.batch)
  ELSE SelectSeq(led, LAMBDA r : \A i \in 1..Len(c.done) : r.path # c.done[i])

\* What C14 says of the aborting step itself: the path is not counted, the
\* ledger is not touched, no other path is attempted, and the call rejects
\* at once when nothing was completed, else goes on to commit.
AbortsThere ==
  Aborted =>
    /\ call'.done = call.done
    /\ call'.index = call.index
    /\ call'.done = SubSeq(call.paths, 1, call.index)
    /\ ledger' = ledger
    /\ IF Len(call.done) = 0
       THEN pc' = "idle" /\ call'.outcome = "summaryError"
       ELSE pc' = CommitPc /\ call'.outcome = "none"

\* The step that commits the completed paths of an aborted call.
CommitsAborted == pc = CommitPc /\ call.cause = "Invalid method"

\* C14 as stated: when create() or drop() returns a non-awaitable the call
\* aborts at that definition, the path is not counted and gets no ledger
\* change, no later path is attempted, and the paths completed before it are
\* committed to the ledger.
C14_Original ==
  [][/\ AbortsThere
     /\ CommitsAborted => ledger' = Committed(ledger, call)]_vars

\* C14 amended: as stated, but the completed paths are committed only when
\* the INSERT / DELETE of the commit succeeds, and then the call rejects with
\* the 'Invalid create/drop method' summary; when that statement fails the
\* call rejects with its error and the ledger is unchanged.
C14_InvalidMethod ==
  [][/\ AbortsThere
     /\ CommitsAborted =>
          \/ /\ call'.outcome = "summaryError"
             /\ ledger' = Committed(ledger, call)
          \/ /\ call'.outcome = "storeError"
             /\ ledger' = ledger]_vars

C14_Witness ==
  /\ pc = "idle"
  /\ call.op = "rollback"
  /\ call.cause = "Invalid method"
  /\ call.outcome = "summaryError"
  /\ Len(call.paths) = 3
  /\ Len(call.done) = 1
  /\ Len(ledger) = 2

\* A dropTables call: drop() has been invoked for the first paths of the
\* list only, in order, and not again once one of them has failed.
DropsInOrder ==
  call.op = "rollback" =>
    /\ invoked = SubSeq(call.paths, 1, Len(invoked))
    /\ call.done = SubSeq(call.paths, 1, call.index)
    /\ call.cause # "none" =>
         (Len(invoked) = call.index + 1 /\ pc \notin {"dropping", "awaitDrop"})

\* The ledger without the rows of the first k paths of the call.
WithoutFirst(k) ==
  SelectSeq(ledger, LAMBDA r : \A i \in 1..k : r.path # call.paths[i])

\* The step in which drop() fails at index 0: nothing to delete.
FailsAtZero ==
  pc = "awaitDrop" /\ call.index = 0 /\ call'.cause # "none"

\* The step that issues the DELETE of a dropTables call.
Forgets == pc = "forgetting"

\* C15 as stated: when drop() first fails at index k the rows of exactly the
\* paths 0..k-1 are deleted, no later drop() is invoked and the call rejects
\* with the 'k/total dropped' summary; when every drop() succeeds the rows of
\* all given paths are deleted and the call resolves.
C15_Original ==
  [][/\ DropsInOrder'
     /\ FailsAtZero =>
          (ledger' = ledger /\ pc' = "idle" /\ call'.outcome = "summaryError")
     /\ Forgets =>
          /\ ledger' = WithoutFirst(call.index)
          /\ call'.outcome = IF call.index = Len(call.paths)
                             THEN "ok" ELSE "summaryError"]_vars

\* C15 amended: as stated, provided the ledger DELETE succeeds; when it
\* fails the call rejects with the DELETE's error and no row is deleted.
C15_PartialRevert ==
  [][/\ DropsInOrder'
     /\ FailsAtZero =>
          (ledger' = ledger /\ pc' = "idle" /\ call'.outcome = "summaryError")
     /\ Forgets =>
          \/ /\ ledger' = WithoutFirst(call.index)
             /\ call'.outcome = IF call.index = Len(call.paths)
                                THEN "ok" ELSE "summaryError"
          \/ /\ ledger' = ledger
             /\ call'.outcome = "storeError"]_vars

C15_Witness ==
  /\ pc = "idle"
  /\ call.op = "rollback"
  /\ call.cause = "Ops"
  /\ call.outcome = "summaryError"
  /\ Len(call.paths) = 3
  /\ call.index = 2
  /\ Len(ledger) = 1
  /\ ledger[1].path = call.paths[3]

\* The rows below the ledger's largest batch number.
LowerRows(led, m) == SelectSeq(led, LAMBDA r : r.batch < m)

\* The path whose drop() is in flight has a ledger row of the largest batch.
DropsLastBatch ==
  pc = "awaitDrop" =>
    \E j \in 1..Len(ledger) :
      /\ ledger[j].path = call.paths[call.index + 1]
      /\ ledger[j].batch = MaxOf(BatchesOf(ledger))

\* C16: in a rollback call drop() is invoked only for definitions whose
\* ledger row carries the largest batch number, and every row with a lower
\* batch number is left unchanged.
C16_LastBatchOnly ==
  [][/\ DropsLastBatch'
     /\ (call.op = "rollback" /\ call'.op = "rollback") =>
          LowerRows(ledger', MaxOf(BatchesOf(ledger))) =
            LowerRows(ledger, MaxOf(BatchesOf(ledger)))]_vars

\* ------------------------------------------- properties of collect / remove
\* collectPaths has answered for the directory as it is.
Collected == pc = "idle" /\ call.op = "collectPaths"

\* An entry that is neither a generator file nor a compiled artifact.
Invalid(f) == f.ext \notin {"ts", "js", "js.map", "d.ts"}

\* The entries that collectPaths retains under the flag.
Retained(map) ==
  SelectSeq(dir, LAMBDA f : map \/ f.ext \notin {"js.map", "d.ts"})

\* C17: collectPaths fails as a whole when an entry that is neither a source
\* file nor a compiled artifact is anywhere in the listing, whatever the flag;
\* otherwise it returns the retained entries in directory order (compiled
\* artifacts dropped when the flag is false, kept when it is true), and the
\* empty list for an empty directory.
C17_Collect ==
  Collected =>
    /\ call.outcome = "pathError" <=> \E i \in 1..Len(dir) : Invalid(dir[i])
    /\ call.outcome = "ok" <=> ~\E i \in 1..Len(dir) : Invalid(dir[i])
    /\ call.outcome = "ok" => call.paths = Retained(call.map)
    /\ dir = <<>> => (call.outcome = "ok" /\ call.paths = <<>>)

C17_Witness ==
  /\ Collected
  /\ ~call.map
  /\ call.outcome = "pathError"
  /\ Len(dir) = 7
  /\ dir[1].ext = "d.ts"
  /\ Invalid(dir[7])

\* A remove call that has found files of its table.
Removing ==
  /\ call.op = "remove"
  /\ call.outcome \notin {"pathError", "No generator found"}

\* ... and has resolved.
Removed == Removing /\ pc = "idle" /\ call.outcome = "ok"

\* The collected files that remove leaves in the directory.
Remaining == SelectSeq(call.all, LAMBDA f : f.table # call.name)

Numbers(d) == {parseInt(d[i].num) : i \in 1..Len(d)}

\* The table has one generator in a directory numbered 01..0N.
OneOfN ==
  /\ Numbers(call.all) = 1..Cardinality(Numbers(call.all))
  /\ Cardinality(Numbers(SelectSeq(call.all, LAMBDA f : f.table = call.name))) = 1
  /\ Numbers(Remaining) \cap
       Numbers(SelectSeq(call.all, LAMBDA f : f.table = call.name)) = {}

\* C18: after a successful remove of table T from a directory numbered
\* 01..0N the remaining files carry the numbers 1..N-1, two digits wide, in
\* the order of their original numbers; files that shared a number still
\* share one, and every file keeps its table name and extension.
C18_Renumbered ==
  (Removed /\ OneOfN) =>
    /\ Len(dir) = Len(Remaining)
    /\ \A i \in 1..Len(dir) :
         /\ dir[i].table = Remaining[i].table
         /\ dir[i].ext = Remaining[i].ext
         /\ Len(dir[i].num) = 2
    /\ Numbers(dir) = 1..(Cardinality(Numbers(call.all)) - 1)
    /\ \A i, j \in 1..Len(dir) :
         parseInt(dir[i].num) <= parseInt(dir[j].num) <=>
           parseInt(Remaining[i].num) <= parseInt(Remaining[j].num)

\* Some file of the collected listing is gone or renamed.
Touched == dir # call.all

RemoveEnded == Removing /\ pc = "idle"

NoMatch(name) ==
  /\ collectPaths(dir, TRUE).ok
  /\ \A i \in 1..Len(collectPaths(dir, TRUE).paths) :
       ~matches(name, collectPaths(dir, TRUE).paths[i])

RemoveCalled == pc = "idle" /\ call.op # "remove" /\ call'.op = "remove"

FailsUntouched ==
  /\ call'.outcome = "No generator found"
  /\ pc' = "idle"
  /\ call'.resets = 0 /\ call'.unlinks = {} /\ call'.renames = {}
  /\ UNCHANGED <<dir, store>>

NotFoundState ==
  call.outcome = "No generator found" =>
    /\ pc = "idle" /\ call.resets = 0
    /\ call.unlinks = {} /\ call.renames = {}
    /\ \A i \in 1..Len(call.all) :
         call.all[i].table # call.name /\ call.all[i] \in Range(dir)

C21_NoGeneratorFound ==
  /\ []NotFoundState
  /\ [][RemoveCalled /\ NoMatch(call'.name) => FailsUntouched]_vars

C21_Witness ==
  /\ call.outcome = "No generator found"
  /\ Len(call.all) = 3
  /\ tableExists /\ Len(ledger) > 0
  /\ \E i \in 1..Len(call.all) : call.all[i].ext = "js"

\* ---------------------------------------------------------------------------
\* C22  reset attempts DROP TABLE for the table of every generator file
\* collected, one at a time and in reverse directory order; a failed drop
\* neither stops the run nor rejects it, and only the successful drops are
\* counted in the message; after the last table the ledger's own table is
\* dropped exactly once, and a failure of that drop is swallowed too.
ResetStarts ==
  pc = "idle" /\ call'.op = "reset" /\ pc' = "resetting" =>
    /\ call'.paths = Reverse(collectPaths(dir, FALSE).paths)
    /\ call'.index = 0 /\ call'.done = <<>>

ResetDropsNext ==
  /\ call.index < Len(call.paths)
  /\ pc' = "resetting"
  /\ call'.outcome = "none"
  /\ call'.paths = call.paths
  /\ call'.index = call.index + 1
  /\ call'.done \in {call.done, Append(call.done, call.paths[call.index + 1])}
  /\ UNCHANGED <<dir, store>>

ResetDropsLedger ==
  /\ call.index = Len(call.paths)
  /\ pc' = "idle"
  /\ call'.outcome = "ok"
  /\ call'.done = call.done /\ call'.paths = call.paths
  /\ \/ UNCHANGED store
     \/ tableExists /\ ~tableExists' /\ ledger' = <<>>
  /\ UNCHANGED dir

C22_ResetDropsAll ==
  [][/\ ResetStarts
     /\ pc = "resetting" /\ call.op = "reset" => ResetDropsNext \/ ResetDropsLedger]_vars

C22_Witness ==
  /\ call.op = "reset" /\ call.outcome = "ok"
  /\ Len(call.paths) = 3
  /\ Len(call.done) = 1 /\ call.done[1] = call.paths[2]
  /\ call.paths[1].num = <<0, 3>>
  /\ tableExists

\* ---------------------------------------------------------------------------
\* C23  the renames that renumber the remaining files execute one operation
\* at a time: no two rename operations of one remove call are in flight at
\* the same time.  A rename is in flight from the moment rename() has issued
\* it until it has settled; call.renames holds the issued, unsettled ones.
C23_OneRenameAtATime == pc = "renaming" => Cardinality(call.renames) <= 1

\* ---------------------------------------------------------------------------
\* C24  after any successful remove of table T, the ledger holds no row
\* whose path is one of T's deleted files.
DeletedFiles ==
  {call.all[i] : i \in {j \in 1..Len(call.all) :
                          call.all[j].table = call.name /\ call.all[j] \notin Range(dir)}}

C24_NoRowOfDeletedFile ==
  Removed => \A i \in 1..Len(ledger) : ledger[i].path \notin DeletedFiles

\* ---------------------------------------------------------------------------
\* C25  after any sequence of MegaExecutor.register calls the registered
\* command names are pairwise distinct: register throws MegaExecutorError
\* when the name is already registered, when the name is not a non-empty
\* string, or when the command is not a MegaCommand subclass, and in each of
\* these cases the registry is left unchanged; otherwise it adds the entry.
DistinctNames ==
  \A i, j \in 1..Len(commands) : i # j => commands[i].name # commands[j].name

MegaExecutorErrors ==
  {"Invalid command", "Invalid command name", "Deplicated command names"}

Refused(name, command) ==
  \/ \E i \in 1..Len(commands) : commands[i].name = name
  \/ ~name.isString \/ name.text = ""
  \/ command.extends # "MegaCommand"

RegisterRight(name, command) ==
  IF Refused(name, command)
  THEN call'.outcome \in MegaExecutorErrors /\ commands' = commands
  ELSE /\ call'.outcome = "ok"
       /\ commands' = Append(commands, [name |-> name, command |-> command])

C25_DistinctNames ==
  /\ []DistinctNames
  /\ [][\A name \in NameInputs, command \in CommandInputs :
          Register(name, command) => RegisterRight(name, command)]_vars

C25_Witness ==
  /\ Len(commands) = Len(BuiltIn) + 3
  /\ call.op = "register"
  /\ call.outcome = "Deplicated command names"

\* ---------------------------------------------------------------------------
\* C26  remove runs reset (when required), delete and rename strictly in
\* this order: no file is deleted before the reset has completed and no file
\* is renamed before all deletions have completed; if the reset rejects,
\* remove rejects and no file is deleted or renamed; if a deletion fails,
\* remove rejects and no file is renamed.
ToDelete == SelectSeq(call.all, LAMBDA f : matches(call.name, f))

ToKeep == SelectSeq(call.all, LAMBDA f : ~matches(call.name, f))

\* No file of the call has been renamed: every file to keep is where it was.
NoneRenamed ==
  /\ \A i \in 1..Len(ToKeep) : ToKeep[i] \in Range(dir)
  /\ Range(dir) \subseteq Range(call.all)

AllDeleted == \A i \in 1..Len(ToDelete) : ToDelete[i] \notin Range(dir)

ResetRejected ==
  /\ call.resets = 1 /\ pc = "idle"
  /\ call.outcome \in {"pathError", "Nothing to reset", "resolveError"}

C26_ResetDeleteRename ==
  Removing =>
    /\ pc \in {"removeReset", "resetting"} => dir = call.all
    /\ pc = "unlinking" => NoneRenamed
    /\ pc = "renaming" => AllDeleted /\ call.unlinks = {} /\ call.cause # "unlink"
    /\ ResetRejected => dir = call.all
    /\ call.cause = "unlink" =>
         /\ NoneRenamed
         /\ pc = "idle" => call.outcome = "unlinkError"
    /\ dir # call.all /\ ~isTsFile(call.all[1]) => call.resets = 1 /\ pc \notin {"removeReset", "resetting"}
    /\ ~NoneRenamed => AllDeleted

C26_Witness ==
  /\ Removing /\ pc = "idle"
  /\ call.outcome = "unlinkError"
  /\ call.resets = 1
  /\ Len(ToDelete) = 2 /\ Len(ToKeep) = 1
  /\ \E i \in 1..2 : ToDelete[i] \in Range(dir)
  /\ \E i \in 1..2 : ToDelete[i] \notin Range(dir)

\* ---------------------------------------------------------------------------
\* C27  apply and revert resolve the definitions of all given paths before
\* the first create() / drop(): if a path fails to load or does not export a
\* valid definition, the call rejects, no create() or drop() is invoked for
\* any path and the ledger is unchanged.  The list of paths handed over by
\* generate and rollback is never empty.
Resolving ==
  pc = "collect" =>
    /\ call.op \in {"generate", "rollback"}
    /\ Len(call.paths) > 0
    /\ invoked = <<>>

ResolveRejected ==
  call.op \in {"generate", "rollback"} /\ call.outcome = "resolveError" =>
    pc = "idle" /\ invoked = <<>>

ResolveFails ==
  collectGenerators(FALSE) =>
    /\ call'.outcome = "resolveError" /\ pc' = "idle"
    /\ invoked' = <<>>
    /\ UNCHANGED store

InvokedAfterResolve == invoked' # invoked /\ invoked' # <<>> => pc \in {"creating", "dropping"}

C27_ResolveBeforeInvoke ==
  /\ [](Resolving /\ ResolveRejected)
  /\ [][ResolveFails /\ InvokedAfterResolve]_vars

C27_Witness ==
  /\ call.op = "rollback" /\ call.outcome = "resolveError"
  /\ Len(call.paths) = 2
  /\ \A i \in 1..2 : HasRow(ledger, call.paths[i])

\* ---------------------------------------------------------------------------
\* C28  remove(T, directory) deletes exactly the collected files whose
\* table-name component equals T, whatever their extension (.ts, .js,
\* .js.map, .d.ts), and no file of a different table, whatever the valid
\* snake_case names involved: the files it sets out to delete are the files
\* of T, it fails for want of a generator exactly when there are none, and
\* every file it deletes is a file of T.
FilesOf(name, listed) == {listed[i] : i \in {j \in 1..Len(listed) : listed[j].table = name}}

PlansFilesOfTable ==
  RemoveCalled /\ call'.outcome # "pathError" =>
    /\ call'.outcome = "No generator found" <=> FilesOf(call'.name, call'.all) = {}
    /\ call'.outcome = "none" => call'.unlinks = FilesOf(call'.name, call'.all)

DeletesFileOfTable ==
  pc = "unlinking" /\ dir' # dir =>
    \E p \in FilesOf(call.name, dir) : dir' = SelectSeq(dir, LAMBDA f : f # p)

C28_DeletesExactlyTable == [][PlansFilesOfTable /\ DeletesFileOfTable]_vars

\* ---------------------------------------------------------------------------
\* C29  provided every remaining file has a distinct (table name, extension)
\* pair, the rename targets are pairwise distinct and no rename's target is
\* the current name of a different remaining file; hence the renames, in
\* whatever order they complete, never overwrite or lose a remaining file.
Stems(d) == {<<d[i].table, d[i].ext>> : i \in 1..Len(d)}

DistinctStems == Cardinality(Stems(ToKeep)) = Len(ToKeep)

RenamesStarted ==
  \/ pc = "renaming"
  \/ pc = "idle" /\ call.outcome \in {"ok", "renameError"}

C29_RenamesDisjoint ==
  Removing /\ DistinctStems =>
    /\ \A r1, r2 \in call.renames :
         r1 # r2 => r1.to # r2.to /\ r1.to # r2.from
    /\ pc = "unlinking" =>
         call.renames = rename(group(ToKeep))
    /\ RenamesStarted =>
         /\ Len(dir) = Len(ToKeep)
         /\ Stems(dir) = Stems(ToKeep)

C29_Witness ==
  /\ Removed /\ DistinctStems
  /\ Len(call.all) = 3 /\ Len(ToKeep) = 2
  /\ call.all[1].table = call.name
  /\ ToKeep[1].num = <<0, 2>> /\ ToKeep[2].num = <<0, 3>>
  /\ Len(dir) = 2
  /\ dir[1].num = <<0, 1>> /\ dir[2].num = <<0, 2>>

\* ---------------------------------------------------------------------------
\* C30  each rollback call in which every drop() succeeds deletes all rows of
\* the largest batch, so the largest batch number strictly decreases or the
\* ledger becomes empty; repeating such rollbacks empties the ledger after
\* exactly as many calls as there were distinct batch numbers, after which
\* rollback fails with 'Nothing to rollback'.

\* Every drop() of the rollback call has succeeded.
AllDropped ==
  /\ call.op = "rollback" /\ pc = "forgetting"
  /\ call.cause = "none" /\ call.index = Len(call.paths)

\* The rows of the largest batch are gone and nothing else: one batch number
\* fewer, the largest.
LastBatchDeleted ==
  /\ ledger' = LowerRows(ledger, MaxOf(BatchesOf(ledger)))
  /\ BatchesOf(ledger') = BatchesOf(ledger) \ {MaxOf(BatchesOf(ledger))}
  /\ ledger' = <<>> \/ MaxOf(BatchesOf(ledger')) < MaxOf(BatchesOf(ledger))

\* rollback is called on the empty ledger and the SELECT answers.
RollbackOnEmpty ==
  /\ pc = "idle" /\ call'.op = "rollback" /\ ~NewHandler
  /\ tableExists /\ ledger = <<>>
  /\ call'.outcome \notin {"loadError", "createError"}

NothingLeft == call'.outcome = "Nothing to rollback" /\ pc' = "idle" /\ UNCHANGED store

\* C30 as stated.
C30_Original ==
  [][/\ AllDropped => LastBatchDeleted
     /\ RollbackOnEmpty => NothingLeft]_vars

\* C30: as stated, for the rollback calls that resolve, that is when every
\* drop() and the DELETE of the rows succeed.
C30_RollbackProgress ==
  [][/\ AllDropped /\ call'.outcome = "ok" => LastBatchDeleted
     /\ AllDropped /\ call'.outcome # "ok" =>
          call'.outcome = "storeError" /\ ledger' = ledger
     /\ RollbackOnEmpty => NothingLeft]_vars

C30_Witness ==
  /\ call.op = "rollback" /\ call.outcome = "ok" /\ pc = "idle"
  /\ Len(call.paths) = 2
  /\ Len(ledger) = 1
  /\ BatchesOf(ledger) = {1}
  /\ call.batch = 2

====
